---- MODULE Spec2Model ----
(***************************************************************************)
(* Branch predictors of branchPredictors.cpp: the always-taken, local,     *)
(* gshare and tournament predictors behind BranchPredictorInterface, and   *)
(* the AtConditionalBranch callback that queries and trains the one active *)
(* predictor.                                                              *)
(*                                                                         *)
(* A predictor object is a record carrying the fields of its class.  The   *)
(* methods are operators on such records: getPrediction gives the value    *)
(* returned (and, for the tournament predictor, the object after the       *)
(* call, since it writes the field `used`), train gives the object after   *)
(* the call.  std::vector::at throws std::out_of_range on a bad index; no   *)
(* handler catches it, so the run ends (variable `thrown`).                *)
(***************************************************************************)
EXTENDS Integers, Sequences, FiniteSets, TLC

VARIABLES
    bp,      \* the object behind the global branchPredictor
    call,    \* the last interface call: its name, arguments and returned value
    trace,   \* history: one entry per train call, with the values train read at entry
    counts,  \* the static counters of AtConditionalBranch
    thrown   \* TRUE once an exception has escaped

vars == <<bp, call, trace, counts, thrown>>

(***************************************************************************)
(* Bounds of the exploration.                                              *)
(***************************************************************************)
\* train calls explored under Spec (any order of interface calls)
MaxTrains == 4
\* conditional branches explored under SpecHarness
MaxEvents == 5
\* conditional branches explored under SpecDeep (tournament, smallest table)
MaxDeepEvents == 7
\* conditional branches explored under SpecLoop (local predictor), and how
\* many of the first of them may be at another address than 0x1000
MaxLoopEvents == 9
MaxMixedEvents == 3
\* train calls and conditional branches explored with the tables of 1024 and
\* 4096 entries (the smallest table is explored to the depths above)
MaxLargeTrains == 2
MaxLargeEvents == 3

\* branch addresses fed to the predictors: 0x1000 and 0x1AE3.  They fall in
\* different LHR buckets (0 and 99); 0x1000 & (N-1) is 0 for every table size,
\* and 0x1AE3 & (N-1) is 99, 739 and 2787 for N = 128, 1024 and 4096: each has
\* its top bit set, so the first shift of that index is cut by the mask.
Addresses == {4096, 6883}

(***************************************************************************)
(* Program constants.                                                      *)
(***************************************************************************)
Mask128 == 127
Mask1024 == 1023
Mask4096 == 4095
BucketMask == 127
NumBuckets == 128
CounterInit == 3
CounterMax == 3
CounterMin == 0
TakenThreshold == 2
UsedGshare == 0
UsedLocal == 1
UsedNone == 2

SupportedSizes == {128, 1024, 4096}

\* a table size -num_BP_entries accepts and no constructor has a case for
UnsupportedSizes == {100}

\* values the never-assigned int PHTsize may be read as
Indeterminate == {0, 127, 255}
Kinds == {"always_taken", "local", "gshare", "tournament"}

(***************************************************************************)
(* The C++ operators on the non-negative ints the predictors compute with. *)
(***************************************************************************)
RECURSIVE BitAnd(_, _)
BitAnd(x, y) ==
    IF x = 0 \/ y = 0 THEN 0
    ELSE (x % 2) * (y % 2) + 2 * BitAnd(x \div 2, y \div 2)

RECURSIVE BitXor(_, _)
BitXor(x, y) ==
    IF x = 0 THEN y
    ELSE IF y = 0 THEN x
    ELSE (((x % 2) + (y % 2)) % 2) + 2 * BitXor(x \div 2, y \div 2)

ShiftLeft1(x) == 2 * x

\* vector<int>::at(i) returns normally
InRange(PHT, i) == i \in DOMAIN PHT

(***************************************************************************)
(* Two-bit saturating counters.                                            *)
(***************************************************************************)
IncrementNoCeiling(c) == c + 1

\* if (PHT.at(index) < 0b11) PHT[index]++
Increment(c) == IF c < CounterMax THEN c + 1 ELSE c

\* if (PHT.at(index) > 0b00) PHT[index]--
Decrement(c) == IF c > CounterMin THEN c - 1 ELSE c

\* PHT.at(index) >= 0b10
PredictsTaken(c) == c >= TakenThreshold

(***************************************************************************)
(* Construction.                                                           *)
(***************************************************************************)
\* the case of the smallest table left out
PHTsizeOfTwoCases(numEntries, indeterminate) ==
    IF numEntries = 4096 THEN Mask4096
    ELSE IF numEntries = 1024 THEN Mask1024
    ELSE indeterminate

\* PHTsize is assigned only for the three supported sizes; for any other
\* size the field keeps an indeterminate value.
PHTsizeOf(numEntries, indeterminate) ==
    IF numEntries = 4096 THEN Mask4096
    ELSE IF numEntries = 1024 THEN Mask1024
    ELSE IF numEntries = 128 THEN Mask128
    ELSE indeterminate

\* the loop run once more: i <= numEntries
NewPHTOneMore(numEntries) == [i \in 0 .. numEntries |-> CounterInit]

\* for (i = 0; i < numEntries; i++) PHT.push_back(0b11)
NewPHT(numEntries) == [i \in 0 .. numEntries - 1 |-> CounterInit]

AlwaysTakenBranchPredictor(numberOfEntries) == [kind |-> "always_taken"]

LocalBranchPredictor(numberOfEntries, indeterminate) ==
    [kind       |-> "local",
     numEntries |-> numberOfEntries,
     PHTsize    |-> PHTsizeOf(numberOfEntries, indeterminate),
     LHR        |-> [b \in 0 .. NumBuckets - 1 |-> 0],
     PHT        |-> NewPHT(numberOfEntries)]

GshareBranchPredictor(numberOfEntries, indeterminate) ==
    [kind       |-> "gshare",
     numEntries |-> numberOfEntries,
     PHTsize    |-> PHTsizeOf(numberOfEntries, indeterminate),
     GHR        |-> 0,
     PHT        |-> NewPHT(numberOfEntries)]

TournamentBranchPredictor(numberOfEntries, indeterminate) ==
    [kind       |-> "tournament",
     numEntries |-> numberOfEntries,
     PHTsize    |-> PHTsizeOf(numberOfEntries, indeterminate),
     used       |-> UsedNone,
     PHT        |-> NewPHT(numberOfEntries),
     lbranch    |-> LocalBranchPredictor(numberOfEntries, indeterminate),
     gbranch    |-> GshareBranchPredictor(numberOfEntries, indeterminate)]

\* main: the predictor object created for -BP_type and -num_BP_entries
NewPredictor(type, numberOfEntries, indeterminate) ==
    CASE type = "always_taken" -> AlwaysTakenBranchPredictor(numberOfEntries)
      [] type = "local"        -> LocalBranchPredictor(numberOfEntries, indeterminate)
      [] type = "gshare"       -> GshareBranchPredictor(numberOfEntries, indeterminate)
      [] type = "tournament"   -> TournamentBranchPredictor(numberOfEntries, indeterminate)

(***************************************************************************)
(* LocalBranchPredictor.                                                   *)
(***************************************************************************)
\* int LSB = 0b1111111 & branchPC
LocalBucket(branchPC) == BitAnd(BucketMask, branchPC)

\* int index = LHR[LSB]
LocalIndex(self, branchPC) == self.LHR[LocalBucket(branchPC)]

\* PHT.at(index) throws
LocalThrows(self, branchPC) == ~InRange(self.PHT, LocalIndex(self, branchPC))

LocalGetPrediction(self, branchPC) ==
    PredictsTaken(self.PHT[LocalIndex(self, branchPC)])

\* the new history stored without the mask
LocalHistoryUnmasked(index, branchWasTaken, PHTsize) ==
    IF branchWasTaken THEN ShiftLeft1(index) + 1 ELSE ShiftLeft1(index)

\* the outcome bit left out of the new history
LocalHistoryNoOutcome(index, branchWasTaken, PHTsize) ==
    BitAnd(ShiftLeft1(index), PHTsize)

\* LHR[LSB] = ((index<<1) + 1) & PHTsize   or   (index<<1) & PHTsize
LocalHistory(index, branchWasTaken, PHTsize) ==
    IF branchWasTaken
    THEN BitAnd(ShiftLeft1(index) + 1, PHTsize)
    ELSE BitAnd(ShiftLeft1(index), PHTsize)

LocalTrain(self, branchPC, branchWasTaken) ==
    LET LSB   == LocalBucket(branchPC)
        index == self.LHR[LSB]
    IN  [self EXCEPT
            !.PHT[index] = IF branchWasTaken THEN Increment(@) ELSE Decrement(@),
            !.LHR[LSB]   = LocalHistory(index, branchWasTaken, self.PHTsize)]

(***************************************************************************)
(* GshareBranchPredictor.                                                  *)
(***************************************************************************)
\* the two low bits of the address dropped before masking
GshareLSBShifted(self, branchPC) == BitAnd(self.PHTsize, branchPC \div 4)

\* int LSB = PHTsize & branchPC
GshareLSB(self, branchPC) == BitAnd(self.PHTsize, branchPC)

\* the history left out of the index
GshareIndexNoHistory(self, branchPC) == GshareLSB(self, branchPC)

\* int index = LSB ^ GHR
GshareIndex(self, branchPC) == BitXor(GshareLSB(self, branchPC), self.GHR)

\* PHT.at(index) throws
GshareThrows(self, branchPC) == ~InRange(self.PHT, GshareIndex(self, branchPC))

GshareGetPrediction(self, branchPC) ==
    PredictsTaken(self.PHT[GshareIndex(self, branchPC)])

GshareHistoryUnmasked(index, branchWasTaken, PHTsize) ==
    IF branchWasTaken THEN ShiftLeft1(index) + 1 ELSE ShiftLeft1(index)

\* GHR = ((index<<1) + 1) & PHTsize   or   (index<<1) & PHTsize
GshareHistory(index, branchWasTaken, PHTsize) ==
    IF branchWasTaken
    THEN BitAnd(ShiftLeft1(index) + 1, PHTsize)
    ELSE BitAnd(ShiftLeft1(index), PHTsize)

GshareTrain(self, branchPC, branchWasTaken) ==
    LET index == GshareIndex(self, branchPC)
    IN  [self EXCEPT
            !.PHT[index] = IF branchWasTaken THEN Increment(@) ELSE Decrement(@),
            !.GHR        = GshareHistory(index, branchWasTaken, self.PHTsize)]

(***************************************************************************)
(* TournamentBranchPredictor.                                              *)
(***************************************************************************)
\* the selector indexed as the gshare table is, with the global history
TournamentLSBWithHistory(self, branchPC) ==
    BitXor(BitAnd(self.PHTsize, branchPC), self.gbranch.GHR)

\* int LSB = PHTsize & branchPC
TournamentLSB(self, branchPC) == BitAnd(self.PHTsize, branchPC)

\* PHT.at(LSB) >= 0b10: the selector takes the gshare prediction
SelectsGshare(self, branchPC) ==
    PredictsTaken(self.PHT[TournamentLSB(self, branchPC)])

TournamentGetPredictionThrows(self, branchPC) ==
    \/ ~InRange(self.PHT, TournamentLSB(self, branchPC))
    \/ IF SelectsGshare(self, branchPC)
       THEN GshareThrows(self.gbranch, branchPC)
       ELSE LocalThrows(self.lbranch, branchPC)

\* the selector read with the comparison turned round
TournamentGetPredictionInverted(self, branchPC) ==
    IF SelectsGshare(self, branchPC)
    THEN LocalGetPrediction(self.lbranch, branchPC)
    ELSE GshareGetPrediction(self.gbranch, branchPC)

\* the value getPrediction returns
TournamentGetPrediction(self, branchPC) ==
    IF SelectsGshare(self, branchPC)
    THEN GshareGetPrediction(self.gbranch, branchPC)
    ELSE LocalGetPrediction(self.lbranch, branchPC)

\* the object after getPrediction: used = 0 or used = 1 has been written
TournamentRecordUsedSwapped(self, branchPC) ==
    [self EXCEPT !.used = IF SelectsGshare(self, branchPC)
                          THEN UsedLocal ELSE UsedGshare]

TournamentRecordUsed(self, branchPC) ==
    [self EXCEPT !.used = IF SelectsGshare(self, branchPC)
                          THEN UsedGshare ELSE UsedLocal]

\* the selector moved only when the two results differ
SelectorUpdateOnDisagreement(c, used, gresult, lresult, branchWasTaken) ==
    IF used \notin {UsedGshare, UsedLocal} \/ gresult = lresult THEN c
    ELSE IF gresult = branchWasTaken THEN Increment(c) ELSE Decrement(c)

\* the `else if (used == 1)` halves left out
SelectorUpdateWhenGshareUsed(c, used, gresult, lresult, branchWasTaken) ==
    IF used # UsedGshare THEN c
    ELSE IF gresult = branchWasTaken THEN Increment(c)
    ELSE IF lresult = branchWasTaken THEN Decrement(c)
    ELSE c

\* the used == 1 cases pasted from the used == 0 cases with the tests
\* adapted and the ++ and -- left as they were
SelectorUpdatePastedBody(c, used, gresult, lresult, branchWasTaken) ==
    IF branchWasTaken
    THEN IF used = UsedGshare
         THEN IF ~gresult /\ lresult
              THEN (IF c > CounterMin THEN c - 1 ELSE c)
              ELSE IF gresult /\ c < CounterMax THEN c + 1 ELSE c
         ELSE IF used = UsedLocal
         THEN IF gresult /\ ~lresult
              THEN (IF c > CounterMin THEN c - 1 ELSE c)
              ELSE IF lresult /\ c < CounterMax THEN c + 1 ELSE c
         ELSE c
    ELSE IF used = UsedGshare
         THEN IF gresult /\ ~lresult
              THEN (IF c > CounterMin THEN c - 1 ELSE c)
              ELSE IF ~gresult /\ c < CounterMax THEN c + 1 ELSE c
         ELSE IF used = UsedLocal
         THEN IF ~gresult /\ lresult
              THEN (IF c > CounterMin THEN c - 1 ELSE c)
              ELSE IF ~lresult /\ c < CounterMax THEN c + 1 ELSE c
         ELSE c

\* the ceiling of the used == 1 increments written 0b01 for 0b11
SelectorUpdateCeilingSlip(c, used, gresult, lresult, branchWasTaken) ==
    IF branchWasTaken
    THEN IF used = UsedGshare
         THEN IF ~gresult /\ lresult
              THEN (IF c > CounterMin THEN c - 1 ELSE c)
              ELSE IF gresult /\ c < CounterMax THEN c + 1 ELSE c
         ELSE IF used = UsedLocal
         THEN IF gresult /\ ~lresult
              THEN (IF c < 1 THEN c + 1 ELSE c)
              ELSE IF lresult /\ c > CounterMin THEN c - 1 ELSE c
         ELSE c
    ELSE IF used = UsedGshare
         THEN IF gresult /\ ~lresult
              THEN (IF c > CounterMin THEN c - 1 ELSE c)
              ELSE IF ~gresult /\ c < CounterMax THEN c + 1 ELSE c
         ELSE IF used = UsedLocal
         THEN IF ~gresult /\ lresult
              THEN (IF c < 1 THEN c + 1 ELSE c)
              ELSE IF ~lresult /\ c > CounterMin THEN c - 1 ELSE c
         ELSE c

\* the selector counter after train, from its value c, the field used and
\* the two results train computed at entry
TournamentSelectorUpdate(c, used, gresult, lresult, branchWasTaken) ==
    IF branchWasTaken
    THEN IF used = UsedGshare
         THEN IF ~gresult /\ lresult
              THEN (IF c > CounterMin THEN c - 1 ELSE c)
              ELSE IF gresult /\ c < CounterMax THEN c + 1 ELSE c
         ELSE IF used = UsedLocal
         THEN IF gresult /\ ~lresult
              THEN (IF c < CounterMax THEN c + 1 ELSE c)
              ELSE IF lresult /\ c > CounterMin THEN c - 1 ELSE c
         ELSE c
    ELSE IF used = UsedGshare
         THEN IF gresult /\ ~lresult
              THEN (IF c > CounterMin THEN c - 1 ELSE c)
              ELSE IF ~gresult /\ c < CounterMax THEN c + 1 ELSE c
         ELSE IF used = UsedLocal
         THEN IF ~gresult /\ lresult
              THEN (IF c < CounterMax THEN c + 1 ELSE c)
              ELSE IF ~lresult /\ c > CounterMin THEN c - 1 ELSE c
         ELSE c

\* train evaluates PHT.at(LSB) on the path it takes
TournamentReadsSelector(used, gresult, lresult, branchWasTaken) ==
    IF branchWasTaken
    THEN \/ used = UsedGshare /\ ((~gresult /\ lresult) \/ gresult)
         \/ used = UsedLocal /\ ((gresult /\ ~lresult) \/ lresult)
    ELSE \/ used = UsedGshare /\ ((gresult /\ ~lresult) \/ ~gresult)
         \/ used = UsedLocal /\ ((~gresult /\ lresult) \/ ~lresult)

TournamentTrainThrows(self, branchPC, branchWasTaken) ==
    \/ GshareThrows(self.gbranch, branchPC)
    \/ LocalThrows(self.lbranch, branchPC)
    \/ /\ TournamentReadsSelector(self.used,
                                  GshareGetPrediction(self.gbranch, branchPC),
                                  LocalGetPrediction(self.lbranch, branchPC),
                                  branchWasTaken)
       /\ ~InRange(self.PHT, TournamentLSB(self, branchPC))

\* only the sub-predictor whose prediction was used is trained
TournamentTrainSubsUsedOnly(self, branchPC, branchWasTaken) ==
    IF self.used = UsedGshare
    THEN [self EXCEPT !.gbranch = GshareTrain(@, branchPC, branchWasTaken)]
    ELSE [self EXCEPT !.lbranch = LocalTrain(@, branchPC, branchWasTaken)]

\* the two sub-predictors after train: both are trained with the outcome
TournamentTrainSubs(self, branchPC, branchWasTaken) ==
    [self EXCEPT !.gbranch = GshareTrain(@, branchPC, branchWasTaken),
                 !.lbranch = LocalTrain(@, branchPC, branchWasTaken)]

TournamentTrain(self, branchPC, branchWasTaken) ==
    LET gresult == GshareGetPrediction(self.gbranch, branchPC)
        lresult == LocalGetPrediction(self.lbranch, branchPC)
        LSB     == TournamentLSB(self, branchPC)
        trained == TournamentTrainSubs(self, branchPC, branchWasTaken)
    IN  IF TournamentReadsSelector(self.used, gresult, lresult, branchWasTaken)
        THEN [trained EXCEPT
                 !.PHT[LSB] = TournamentSelectorUpdate(@, self.used, gresult,
                                                       lresult, branchWasTaken)]
        ELSE trained

(***************************************************************************)
(* BranchPredictorInterface: the virtual calls on the active object.       *)
(***************************************************************************)
GetPrediction(self, branchPC) ==
    CASE self.kind = "always_taken" -> TRUE
      [] self.kind = "local"        -> LocalGetPrediction(self, branchPC)
      [] self.kind = "gshare"       -> GshareGetPrediction(self, branchPC)
      [] self.kind = "tournament"   -> TournamentGetPrediction(self, branchPC)

\* getPrediction leaving the object as it found it
AfterGetPredictionNoRecord(self, branchPC) == self

\* the object after getPrediction(branchPC)
AfterGetPrediction(self, branchPC) ==
    IF self.kind = "tournament" THEN TournamentRecordUsed(self, branchPC) ELSE self

GetPredictionThrows(self, branchPC) ==
    CASE self.kind = "always_taken" -> FALSE
      [] self.kind = "local"        -> LocalThrows(self, branchPC)
      [] self.kind = "gshare"       -> GshareThrows(self, branchPC)
      [] self.kind = "tournament"   -> TournamentGetPredictionThrows(self, branchPC)

\* the object after train(branchPC, branchWasTaken)
Train(self, branchPC, branchWasTaken) ==
    CASE self.kind = "always_taken" -> self
      [] self.kind = "local"        -> LocalTrain(self, branchPC, branchWasTaken)
      [] self.kind = "gshare"       -> GshareTrain(self, branchPC, branchWasTaken)
      [] self.kind = "tournament"   -> TournamentTrain(self, branchPC, branchWasTaken)

TrainThrows(self, branchPC, branchWasTaken) ==
    CASE self.kind = "always_taken" -> FALSE
      [] self.kind = "local"        -> LocalThrows(self, branchPC)
      [] self.kind = "gshare"       -> GshareThrows(self, branchPC)
      [] self.kind = "tournament"   -> TournamentTrainThrows(self, branchPC, branchWasTaken)

\* what train(branchPC, branchWasTaken) reads at entry, kept in the history
\* (AtConditionalBranch adds the prediction it was returned)
TrainEntry(self, branchPC, branchWasTaken) ==
    CASE self.kind = "always_taken" ->
            [branchPC |-> branchPC, branchWasTaken |-> branchWasTaken]
      [] self.kind = "local" ->
            [branchPC |-> branchPC, branchWasTaken |-> branchWasTaken,
             index    |-> LocalIndex(self, branchPC),
             counter  |-> self.PHT[LocalIndex(self, branchPC)]]
      [] self.kind = "gshare" ->
            [branchPC |-> branchPC, branchWasTaken |-> branchWasTaken,
             index    |-> GshareIndex(self, branchPC),
             counter  |-> self.PHT[GshareIndex(self, branchPC)]]
      [] self.kind = "tournament" ->
            [branchPC |-> branchPC, branchWasTaken |-> branchWasTaken,
             gresult  |-> GshareGetPrediction(self.gbranch, branchPC),
             lresult  |-> LocalGetPrediction(self.lbranch, branchPC),
             used     |-> self.used,
             LSB      |-> TournamentLSB(self, branchPC),
             selector |-> self.PHT[TournamentLSB(self, branchPC)]]

(***************************************************************************)
(* State machine.                                                          *)
(***************************************************************************)
NoCall == [op |-> "none", branchPC |-> 0, branchWasTaken |-> FALSE, ret |-> FALSE]

ZeroCounts ==
    [conditionalBranchesCount       |-> 0,
     correctPredictionCount         |-> 0,
     takenBranchesCount             |-> 0,
     notTakenBranchesCount          |-> 0,
     predictedTakenBranchesCount    |-> 0,
     predictedNotTakenBranchesCount |-> 0]

\* main has created the predictor named on the command line, with one of the
\* supported table sizes
Init ==
    /\ bp \in {NewPredictor(k, n, 0) : k \in Kinds, n \in SupportedSizes}
    /\ call = NoCall
    /\ trace = <<>>
    /\ counts = ZeroCounts
    /\ thrown = FALSE

\* the tournament predictor with the smallest table
InitDeep ==
    /\ bp = NewPredictor("tournament", 128, 0)
    /\ call = NoCall
    /\ trace = <<>>
    /\ counts = ZeroCounts
    /\ thrown = FALSE

\* main has created a predictor with a table size the constructors have no
\* case for: PHTsize holds whatever was in memory
InitConfig ==
    /\ bp \in {NewPredictor(k, n, i) :
                  k \in Kinds, n \in UnsupportedSizes, i \in Indeterminate}
    /\ call = NoCall
    /\ trace = <<>>
    /\ counts = ZeroCounts
    /\ thrown = FALSE

\* how far a predictor is explored: deep with the table of 128 entries, less
\* deep with the larger ones
LargeTables(self) ==
    self.kind # "always_taken" /\ self.numEntries > NumBuckets

TrainBudget(self) == IF LargeTables(self) THEN MaxLargeTrains ELSE MaxTrains

EventBudget(self, deep) == IF LargeTables(self) THEN MaxLargeEvents ELSE deep

\* branchPredictor->getPrediction(a), called on its own
CallGetPrediction(a) ==
    /\ ~thrown
    /\ IF GetPredictionThrows(bp, a)
       THEN /\ thrown' = TRUE
            /\ UNCHANGED <<bp, call>>
       ELSE /\ bp' = AfterGetPrediction(bp, a)
            /\ call' = [op |-> "getPrediction", branchPC |-> a,
                        branchWasTaken |-> FALSE, ret |-> GetPrediction(bp, a)]
            /\ UNCHANGED thrown
    /\ UNCHANGED <<trace, counts>>

\* branchPredictor->train(a, o), called on its own
CallTrain(a, o) ==
    /\ ~thrown
    /\ Len(trace) < TrainBudget(bp)
    /\ IF TrainThrows(bp, a, o)
       THEN /\ thrown' = TRUE
            /\ UNCHANGED <<bp, call, trace>>
       ELSE /\ bp' = Train(bp, a, o)
            /\ call' = [op |-> "train", branchPC |-> a,
                        branchWasTaken |-> o, ret |-> FALSE]
            /\ trace' = Append(trace, TrainEntry(bp, a, o))
            /\ UNCHANGED thrown
    /\ UNCHANGED counts

\* the last test of AtConditionalBranch written != for ==
TallyMispredictions(c, wasPredictedTaken, branchWasTaken) ==
    [c EXCEPT
        !.conditionalBranchesCount = @ + 1,
        !.predictedTakenBranchesCount = IF wasPredictedTaken THEN @ + 1 ELSE @,
        !.predictedNotTakenBranchesCount = IF wasPredictedTaken THEN @ ELSE @ + 1,
        !.takenBranchesCount = IF branchWasTaken THEN @ + 1 ELSE @,
        !.notTakenBranchesCount = IF branchWasTaken THEN @ ELSE @ + 1,
        !.correctPredictionCount =
            IF wasPredictedTaken # branchWasTaken THEN @ + 1 ELSE @]

\* the counters after one conditional branch
Tally(c, wasPredictedTaken, branchWasTaken) ==
    [c EXCEPT
        !.conditionalBranchesCount = @ + 1,
        !.predictedTakenBranchesCount = IF wasPredictedTaken THEN @ + 1 ELSE @,
        !.predictedNotTakenBranchesCount = IF wasPredictedTaken THEN @ ELSE @ + 1,
        !.takenBranchesCount = IF branchWasTaken THEN @ + 1 ELSE @,
        !.notTakenBranchesCount = IF branchWasTaken THEN @ ELSE @ + 1,
        !.correctPredictionCount =
            IF wasPredictedTaken = branchWasTaken THEN @ + 1 ELSE @]

\* AtConditionalBranch(a, o): the prediction is taken, the predictor is
\* trained with the outcome, the branch is counted.  `limit` bounds the
\* number of branches explored.
AtConditionalBranch(a, o, limit) ==
    /\ ~thrown
    /\ counts.conditionalBranchesCount < limit
    /\ IF GetPredictionThrows(bp, a)
       THEN /\ thrown' = TRUE
            /\ UNCHANGED <<bp, call, trace, counts>>
       ELSE LET wasPredictedTaken == GetPrediction(bp, a)
                queried           == AfterGetPrediction(bp, a)
            IN  IF TrainThrows(queried, a, o)
                THEN /\ thrown' = TRUE
                     /\ bp' = queried
                     /\ UNCHANGED <<call, trace, counts>>
                ELSE /\ bp' = Train(queried, a, o)
                     /\ call' = [op |-> "AtConditionalBranch", branchPC |-> a,
                                 branchWasTaken |-> o, ret |-> wasPredictedTaken]
                     /\ trace' = Append(trace, TrainEntry(queried, a, o) @@
                                            [predicted |-> wasPredictedTaken])
                     /\ counts' = Tally(counts, wasPredictedTaken, o)
                     /\ UNCHANGED thrown

GetPredictionCall == \E a \in Addresses : CallGetPrediction(a)

TrainCall == \E a \in Addresses, o \in BOOLEAN : CallTrain(a, o)

\* the interface, called in any order
Next == GetPredictionCall \/ TrainCall

Spec == Init /\ [][Next]_vars

\* the interface of a predictor created with an unsupported table size
SpecConfig == InitConfig /\ [][Next]_vars

\* the program: every conditional branch runs AtConditionalBranch
ConditionalBranch ==
    \E a \in Addresses, o \in BOOLEAN :
        AtConditionalBranch(a, o, EventBudget(bp, MaxEvents))

NextHarness == ConditionalBranch

SpecHarness == Init /\ [][NextHarness]_vars

\* AtConditionalBranch(a, o) statement by statement.  Step 1: the prediction
\* is taken; the callback then stands before step 2 (call.op = "step1")
\* holding branchPC, branchWasTaken and wasPredictedTaken.
HarnessGetPrediction(a, o) ==
    /\ ~thrown
    /\ call.op # "step1"
    /\ counts.conditionalBranchesCount < EventBudget(bp, MaxEvents)
    /\ IF GetPredictionThrows(bp, a)
       THEN /\ thrown' = TRUE
            /\ UNCHANGED <<bp, call>>
       ELSE /\ bp' = AfterGetPrediction(bp, a)
            /\ call' = [op |-> "step1", branchPC |-> a,
                        branchWasTaken |-> o, ret |-> GetPrediction(bp, a)]
            /\ UNCHANGED thrown
    /\ UNCHANGED <<trace, counts>>

\* the prediction taken again after the predictor was trained
HarnessTrainPredictsAfter ==
    /\ ~thrown
    /\ call.op = "step1"
    /\ LET a == call.branchPC
           o == call.branchWasTaken
           wasPredictedTaken == GetPrediction(Train(bp, a, o), a)
       IN  /\ bp' = Train(bp, a, o)
           /\ call' = [call EXCEPT !.op = "AtConditionalBranch",
                                   !.ret = wasPredictedTaken]
           /\ trace' = Append(trace, TrainEntry(bp, a, o) @@
                                  [predicted |-> wasPredictedTaken])
           /\ counts' = Tally(counts, wasPredictedTaken, o)
           /\ UNCHANGED thrown

\* Step 2 and the counting: the predictor is trained with the outcome, the
\* branch is counted with the prediction of step 1.
HarnessTrain ==
    /\ ~thrown
    /\ call.op = "step1"
    /\ LET a == call.branchPC
           o == call.branchWasTaken
       IN  IF TrainThrows(bp, a, o)
           THEN /\ thrown' = TRUE
                /\ UNCHANGED <<bp, call, trace, counts>>
           ELSE /\ bp' = Train(bp, a, o)
                /\ call' = [call EXCEPT !.op = "AtConditionalBranch"]
                /\ trace' = Append(trace, TrainEntry(bp, a, o) @@
                                       [predicted |-> call.ret])
                /\ counts' = Tally(counts, call.ret, o)
                /\ UNCHANGED thrown

HarnessStep1 == \E a \in Addresses, o \in BOOLEAN : HarnessGetPrediction(a, o)

NextSteps == HarnessStep1 \/ HarnessTrain

SpecSteps == Init /\ [][NextSteps]_vars

\* the program run longer, with the tournament predictor
DeepConditionalBranch ==
    \E a \in Addresses, o \in BOOLEAN : AtConditionalBranch(a, o, MaxDeepEvents)

NextDeep == DeepConditionalBranch

SpecDeep == InitDeep /\ [][NextDeep]_vars

\* the local predictor alone
InitLocal ==
    /\ bp \in {NewPredictor("local", n, 0) : n \in SupportedSizes}
    /\ call = NoCall
    /\ trace = <<>>
    /\ counts = ZeroCounts
    /\ thrown = FALSE

\* the program in a loop: the branch at 0x1000 over and over, other branches
\* among the first few only
LoopConditionalBranch ==
    \E a \in Addresses, o \in BOOLEAN :
        AtConditionalBranch(a, o, EventBudget(bp, IF a = 4096
                                                  THEN MaxLoopEvents
                                                  ELSE MaxMixedEvents))

NextLoop == LoopConditionalBranch

SpecLoop == InitLocal /\ [][NextLoop]_vars

(***************************************************************************)
(* Properties.                                                             *)
(***************************************************************************)
\* every pattern history table of an object, by name
Tables(self) ==
    CASE self.kind = "always_taken" -> << >>
      [] self.kind = "local"        -> <<self.PHT>>
      [] self.kind = "gshare"       -> <<self.PHT>>
      [] self.kind = "tournament"   -> <<self.PHT, self.lbranch.PHT, self.gbranch.PHT>>

\* the LocalBranchPredictor and GshareBranchPredictor objects inside an object
LocalParts(self) ==
    CASE self.kind = "local"      -> {self}
      [] self.kind = "tournament" -> {self.lbranch}
      [] OTHER                    -> {}

GshareParts(self) ==
    CASE self.kind = "gshare"     -> {self}
      [] self.kind = "tournament" -> {self.gbranch}
      [] OTHER                    -> {}

LastEntry == trace[Len(trace)]

CountersInRange ==
    \A k \in DOMAIN Tables(bp) :
        Tables(bp)[k] \in [0 .. bp.numEntries - 1 -> 0 .. 3]

\* a train on a counter that sits at the bound it would cross leaves it there
AtBound(before, after, i, o) ==
    /\ (o /\ before[i] = 3) => after[i] = 3
    /\ (~o /\ before[i] = 0) => after[i] = 0

SaturatingStep ==
    trace' # trace =>
        LET a == trace'[Len(trace')].branchPC
            o == trace'[Len(trace')].branchWasTaken
        IN  /\ bp.kind = "local" =>
                 AtBound(bp.PHT, bp'.PHT, bp.LHR[a % 128], o)
            /\ bp.kind = "gshare" =>
                 AtBound(bp.PHT, bp'.PHT, BitXor(a % bp.numEntries, bp.GHR), o)
            /\ bp.kind = "tournament" =>
                 LET s == a % bp.numEntries
                 IN  /\ AtBound(bp.lbranch.PHT, bp'.lbranch.PHT,
                                bp.lbranch.LHR[a % 128], o)
                     /\ AtBound(bp.gbranch.PHT, bp'.gbranch.PHT,
                                BitXor(a % bp.numEntries, bp.gbranch.GHR), o)
                     /\ bp.PHT[s] = 3 => bp'.PHT[s] \in {2, 3}
                     /\ bp.PHT[s] = 0 => bp'.PHT[s] \in {0, 1}

\* C1: every counter of every pattern history table (local, gshare, the
\* tournament's selector and its two sub-predictors) stays in [0,3] under any
\* sequence of getPrediction and train calls; a taken train on a counter at 3
\* and a not-taken train on a counter at 0 leave that counter unchanged.
C1_Saturation == [](CountersInRange) /\ [][SaturatingStep]_vars

\* a local predictor whose last train was not-taken on a counter already at 0
C1_Witness ==
    /\ bp.kind = "local"
    /\ Len(trace) > 0
    /\ ~LastEntry.branchWasTaken
    /\ LastEntry.counter = 0
    /\ bp.PHT[LastEntry.index] = 0

\* the index ranges of one object
LocalInRange(l) ==
    /\ DOMAIN l.PHT = 0 .. l.numEntries - 1
    /\ l.LHR \in [0 .. 127 -> 0 .. l.numEntries - 1]
    /\ \A a \in Addresses :
          /\ LocalBucket(a) \in 0 .. 127
          /\ LocalIndex(l, a) \in 0 .. l.numEntries - 1

GshareInRange(g) ==
    /\ DOMAIN g.PHT = 0 .. g.numEntries - 1
    /\ g.GHR \in 0 .. g.numEntries - 1
    /\ \A a \in Addresses : GshareIndex(g, a) \in 0 .. g.numEntries - 1

SelectorInRange(t) ==
    /\ DOMAIN t.PHT = 0 .. t.numEntries - 1
    /\ \A a \in Addresses : TournamentLSB(t, a) \in 0 .. t.numEntries - 1

\* C2: in every reachable state and for every address, the LHR bucket is in
\* [0,128), every LHR entry and the GHR are in [0,N), and the index into the
\* local table, the gshare table and the selector table is in [0,N); no
\* PHT.at(...) has thrown.
C2_IndicesInRange ==
    /\ ~thrown
    /\ \A l \in LocalParts(bp) : LocalInRange(l)
    /\ \A g \in GshareParts(bp) : GshareInRange(g)
    /\ bp.kind = "tournament" => SelectorInRange(bp)

\* a gshare predictor of the largest size whose last train shifted an index
\* with its top bit set: the mask cut the shifted value back into [0,N)
C2_Witness ==
    /\ bp.kind = "gshare"
    /\ bp.numEntries = 4096
    /\ Len(trace) > 0
    /\ 2 * LastEntry.index >= bp.numEntries
    /\ bp.GHR < bp.numEntries

(***************************************************************************)
(* The quantities the tournament properties speak of, written from their   *)
(* statements: the selector counter of an address, the prediction of each  *)
(* sub-predictor, a counter moved one saturating step.                     *)
(***************************************************************************)
SelectorAt(t, a) == t.PHT[a % t.numEntries]

LocalPrediction(l, a) == l.PHT[l.LHR[a % 128] % l.numEntries] >= 2

GsharePrediction(g, a) == g.PHT[BitXor(a % g.numEntries, g.GHR)] >= 2

OneStep(c, up) ==
    IF up THEN (IF c < 3 THEN c + 1 ELSE 3) ELSE (IF c > 0 THEN c - 1 ELSE 0)

\* the step processed one branch (getPrediction, then train)
BranchDone == trace' # trace

DonePC == trace'[Len(trace')].branchPC

DoneTaken == trace'[Len(trace')].branchWasTaken

\* the two sub-predictors gave the same prediction for the branch of the step
Agreed ==
    GsharePrediction(bp.gbranch, DonePC) = LocalPrediction(bp.lbranch, DonePC)

C3_OriginalStep ==
    (BranchDone /\ bp.kind = "tournament" /\ Agreed) =>
        SelectorAt(bp', DonePC) = SelectorAt(bp, DonePC)

C3_AmendedStep ==
    (BranchDone /\ bp.kind = "tournament" /\ Agreed) =>
        LET c == SelectorAt(bp, DonePC)
        IN  SelectorAt(bp', DonePC) =
               IF GsharePrediction(bp.gbranch, DonePC) = DoneTaken
               THEN OneStep(c, c >= 2)
               ELSE c

C4_Step ==
    (BranchDone /\ bp.kind = "tournament" /\ ~Agreed) =>
        SelectorAt(bp', DonePC) =
            OneStep(SelectorAt(bp, DonePC),
                    GsharePrediction(bp.gbranch, DonePC) = DoneTaken)

\* C4: for a branch processed as getPrediction then train on which the two
\* sub-predictors disagree, the selector counter of the branch goes up by
\* one (saturating at 3) when gshare predicted the outcome and down by one
\* (saturating at 0) when local did.
C4_Disagreement == [][C4_Step]_vars

\* the local sub-predictor was in use, gshare alone predicted the outcome,
\* and the selector went up
C4_Witness ==
    /\ bp.kind = "tournament"
    /\ Len(trace) > 0
    /\ LastEntry.used = 1
    /\ LastEntry.gresult = LastEntry.branchWasTaken
    /\ LastEntry.lresult # LastEntry.branchWasTaken
    /\ SelectorAt(bp, LastEntry.branchPC) = LastEntry.selector + 1

\* what the selector counter of an address picks
Selected(t, a) ==
    IF SelectorAt(t, a) >= 2
    THEN GsharePrediction(t.gbranch, a)
    ELSE LocalPrediction(t.lbranch, a)

C6_State ==
    bp.kind = "tournament" =>
        \A a \in Addresses : GetPrediction(bp, a) = Selected(bp, a)

C6_Step ==
    (BranchDone /\ bp.kind = "tournament") => call'.ret = Selected(bp, DonePC)

\* C6: the tournament's getPrediction(a) returns the gshare sub-predictor's
\* prediction when the selector counter at a & (N-1) is >= 2 and the local
\* sub-predictor's when it is < 2, in every state and for the prediction
\* each branch is given.
C6_SelectedPrediction == [](C6_State) /\ [][C6_Step]_vars

\* the selector picked local while the two sub-predictors disagreed
C6_Witness ==
    /\ bp.kind = "tournament"
    /\ Len(trace) > 0
    /\ LastEntry.selector < 2
    /\ LastEntry.gresult # LastEntry.lresult
    /\ LastEntry.predicted = LastEntry.lresult

\* the last two branches were at one address, and on each gshare predicted
\* the outcome and local did not
GshareStreak ==
    /\ bp.kind = "tournament"
    /\ Len(trace) >= 2
    /\ trace[Len(trace) - 1].branchPC = LastEntry.branchPC
    /\ \A i \in {Len(trace) - 1, Len(trace)} :
          /\ trace[i].gresult = trace[i].branchWasTaken
          /\ trace[i].lresult # trace[i].branchWasTaken

\* C8: after two (or more) consecutive branches at one address on each of
\* which gshare predicted the outcome and local did not, the selector
\* counter of the address is >= 2 and the tournament's prediction for it is
\* the gshare sub-predictor's.
C8_Convergence ==
    GshareStreak =>
        /\ SelectorAt(bp, LastEntry.branchPC) >= 2
        /\ GetPrediction(bp, LastEntry.branchPC)
              = GsharePrediction(bp.gbranch, LastEntry.branchPC)

\* such a run of two that began with the selector counter at 0
C8_Witness ==
    /\ GshareStreak
    /\ trace[Len(trace) - 1].selector = 0
    /\ SelectorAt(bp, LastEntry.branchPC) = 2

\* a step that is a getPrediction call on its own
GetPredictionDone == trace' = trace /\ call'.op = "getPrediction"

C5_OriginalStep == GetPredictionDone => bp' = bp

\* C5 as stated: for every predictor kind, getPrediction(a) leaves all
\* predictor state unchanged, every field a later train reads included.
C5_Original == [][C5_OriginalStep]_vars

C5_AmendedStep ==
    GetPredictionDone =>
        IF bp.kind = "tournament"
        THEN bp' = [bp EXCEPT !.used =
                       IF SelectorAt(bp, call'.branchPC) >= 2 THEN 0 ELSE 1]
        ELSE bp' = bp

\* C5 amended: getPrediction(a) leaves every PHT, LHR, GHR and the selector
\* table unchanged for every predictor kind, and the whole state unchanged
\* for always-taken, local and gshare; the tournament's getPrediction(a)
\* writes one field, used (0 when the selector counter at a & (N-1) is >= 2,
\* otherwise 1), which the next train reads.
C5_GetPredictionWritesUsed == [][C5_AmendedStep]_vars

\* a tournament getPrediction has just recorded which sub-predictor it used,
\* and a train that follows it moves the selector, which it would leave
\* alone with used as the constructor left it
C5_Witness ==
    /\ bp.kind = "tournament"
    /\ call.op = "getPrediction"
    /\ Len(trace) > 0
    /\ bp.used = IF SelectorAt(bp, call.branchPC) >= 2 THEN 0 ELSE 1
    /\ \E b \in Addresses, o \in BOOLEAN :
          Train(bp, b, o).PHT # Train([bp EXCEPT !.used = 2], b, o).PHT

\* a standalone LocalBranchPredictor of size N fed the first k events
RECURSIVE LocalFed(_, _, _)
LocalFed(N, events, k) ==
    IF k = 0
    THEN LocalBranchPredictor(N, 0)
    ELSE LocalTrain(LocalFed(N, events, k - 1),
                    events[k].branchPC, events[k].branchWasTaken)

\* a standalone GshareBranchPredictor of size N fed the first k events
RECURSIVE GshareFed(_, _, _)
GshareFed(N, events, k) ==
    IF k = 0
    THEN GshareBranchPredictor(N, 0)
    ELSE GshareTrain(GshareFed(N, events, k - 1),
                     events[k].branchPC, events[k].branchWasTaken)

\* C7: after any sequence of branches fed to a tournament predictor of size
\* N, its local sub-predictor equals a standalone local predictor of size N
\* fed the same sequence, and its gshare sub-predictor a standalone gshare
\* predictor of size N fed the same sequence.
C7_SubPredictorsTrained ==
    bp.kind = "tournament" =>
        /\ bp.lbranch = LocalFed(bp.numEntries, trace, Len(trace))
        /\ bp.gbranch = GshareFed(bp.numEntries, trace, Len(trace))

\* the selector chose gshare for some branches of the sequence and local
\* for others
C7_Witness ==
    /\ bp.kind = "tournament"
    /\ \E i \in 1 .. Len(trace) : trace[i].used = 0
    /\ \E i \in 1 .. Len(trace) : trace[i].used = 1

OutcomeBit(o) == IF o THEN 1 ELSE 0

C9_State ==
    bp.kind = "local" =>
        \A a \in Addresses : GetPrediction(bp, a) = LocalPrediction(bp, a)

C9_Step ==
    (BranchDone /\ bp.kind = "local") =>
        LET bucket == DonePC % 128
            idx    == bp.LHR[bucket] % bp.numEntries
        IN  /\ call'.ret = (bp.PHT[idx] >= 2)
            /\ bp'.PHT = [bp.PHT EXCEPT ![idx] = OneStep(@, DoneTaken)]
            /\ bp'.LHR = [bp.LHR EXCEPT ![bucket] =
                             (2 * idx + OutcomeBit(DoneTaken)) % bp.numEntries]

\* N = 128 and the only branches were 0x1000 with outcomes T, T, T, F
LocalScenarioRun ==
    /\ bp.kind = "local"
    /\ bp.numEntries = 128
    /\ Len(trace) = 4
    /\ \A i \in 1 .. 4 : trace[i].branchPC = 4096
    /\ \A i \in 1 .. 4 : trace[i].branchWasTaken = (i < 4)

C9_Scenario ==
    LocalScenarioRun =>
        /\ \A i \in 1 .. 4 : trace[i].predicted
        /\ bp.PHT[trace[4].index] = trace[4].counter - 1
        /\ bp.LHR[4096 % 128] = (2 * trace[4].index) % 128
        /\ trace[4].index = 7
        /\ bp.LHR[4096 % 128] = 14

\* C9: with bucket = a & 127 and idx = LHR[bucket] & (N-1), the local
\* predictor's getPrediction(a) returns PHT[idx] >= 2, and train(a, o) moves
\* PHT[idx] one saturating step toward o and sets LHR[bucket] to
\* ((idx << 1) | o) & (N-1), nothing else changing; with N = 128 and 0x1000
\* fed T, T, T, F every prediction is taken, the fourth train takes one off
\* the counter it read and leaves LHR[bucket] = (index << 1) & 127.
C9_LocalStep == [](C9_State /\ C9_Scenario) /\ [][C9_Step]_vars

C9_Witness == LocalScenarioRun /\ bp.PHT[7] = 2

C10_State ==
    bp.kind = "gshare" =>
        \A a \in Addresses : GetPrediction(bp, a) = GsharePrediction(bp, a)

C10_Step ==
    (BranchDone /\ bp.kind = "gshare") =>
        LET idx == BitXor(DonePC % bp.numEntries, bp.GHR)
        IN  /\ call'.ret = (bp.PHT[idx] >= 2)
            /\ bp'.PHT = [bp.PHT EXCEPT ![idx] = OneStep(@, DoneTaken)]
            /\ bp'.GHR = (2 * idx + OutcomeBit(DoneTaken)) % bp.numEntries

\* C10: with idx = (a & (N-1)) XOR GHR, the gshare predictor's
\* getPrediction(a) returns PHT[idx] >= 2, and train(a, o) moves PHT[idx]
\* one saturating step toward o and then sets GHR to ((idx << 1) | o) & (N-1),
\* idx being computed from the GHR of before the update.
C10_GshareStep == [](C10_State) /\ [][C10_Step]_vars

\* a branch trained with a history that changed its index, whose new history
\* lost its top bit to the mask
C10_Witness ==
    /\ bp.kind = "gshare"
    /\ Len(trace) > 1
    /\ LastEntry.index # LastEntry.branchPC % bp.numEntries
    /\ 2 * LastEntry.index >= bp.numEntries
    /\ bp.GHR = (2 * LastEntry.index + OutcomeBit(LastEntry.branchWasTaken))
                   % bp.numEntries
C11_Fresh ==
    trace = << >> =>
        /\ \A k \in DOMAIN Tables(bp) :
              Tables(bp)[k] = [i \in 0 .. bp.numEntries - 1 |-> 3]
        /\ \A l \in LocalParts(bp) : l.LHR = [b \in 0 .. 127 |-> 0]
        /\ \A g \in GshareParts(bp) : g.GHR = 0
        /\ \A a \in Addresses : GetPrediction(bp, a) = TRUE

C11_Sizes ==
    /\ \A k \in DOMAIN Tables(bp) :
          DOMAIN Tables(bp)[k] = 0 .. bp.numEntries - 1
    /\ \A p \in LocalParts(bp) \cup GshareParts(bp) :
          p.numEntries = bp.numEntries

\* C11: after construction with N in {128, 1024, 4096} and before any train,
\* every PHT holds N entries all equal to 3, every LHR entry and the GHR
\* are 0 and getPrediction returns true for every address and every kind;
\* in every state each PHT has N entries, the tournament's selector table
\* and the PHTs of its two sub-predictors included.
C11_InitialTakenBias == C11_Fresh /\ C11_Sizes

\* a new tournament predictor of 4096 entries has just answered its first
\* getPrediction, with taken
C11_Witness ==
    /\ bp.kind = "tournament"
    /\ bp.numEntries = 4096
    /\ trace = << >>
    /\ call.op = "getPrediction"
    /\ call.ret

\* C12: a local, gshare or tournament predictor constructed with a table
\* size that is not a supported one is never usable: no getPrediction or
\* train call on it returns.
C12_Rejection ==
    (bp.kind # "always_taken" /\ bp.numEntries \notin SupportedSizes) =>
        (call = NoCall /\ trace = << >>)

C13_State ==
    bp.kind = "always_taken" =>
        /\ \A a \in Addresses : GetPrediction(bp, a) = TRUE
        /\ \A i \in 1 .. Len(trace) : trace[i].predicted
        /\ counts.correctPredictionCount = counts.takenBranchesCount

C13_Step == (BranchDone /\ bp.kind = "always_taken") => bp' = bp

\* C13: the always-taken predictor's getPrediction returns true for every
\* address in every state and its train changes nothing; so after any
\* number of conditional branches run with it, correctPredictionCount
\* equals takenBranchesCount.
C13_AlwaysTaken == [](C13_State) /\ [][C13_Step]_vars

\* branches of both outcomes were counted
C13_Witness ==
    /\ bp.kind = "always_taken"
    /\ counts.takenBranchesCount >= 1
    /\ counts.notTakenBranchesCount >= 2
    /\ counts.correctPredictionCount = counts.takenBranchesCount

\* the getPrediction of a branch: only when no branch is half-way, it answers
\* from the state as it is then and trains nothing
C14_Step1 ==
    (call'.op = "step1" /\ call' # call) =>
        /\ call.op # "step1"
        /\ trace' = trace
        /\ counts' = counts
        /\ call'.ret = GetPrediction(bp, call'.branchPC)
        /\ bp' = AfterGetPrediction(bp, call'.branchPC)

\* the train of a branch: only right after that branch's getPrediction, with
\* its address and outcome, once, scored against the prediction taken then
C14_Step2 ==
    BranchDone =>
        /\ call.op = "step1"
        /\ call'.op # "step1"
        /\ Len(trace') = Len(trace) + 1
        /\ DonePC = call.branchPC
        /\ DoneTaken = call.branchWasTaken
        /\ trace'[Len(trace')].predicted = call.ret
        /\ bp' = Train(bp, call.branchPC, call.branchWasTaken)
        /\ counts'.conditionalBranchesCount = Len(trace')

RECURSIVE SecondLocal(_, _, _, _)
SecondLocal(N, m, events, k) ==
    IF k = 0
    THEN LocalBranchPredictor(N, m)
    ELSE LocalTrain(SecondLocal(N, m, events, k - 1),
                    events[k].branchPC, events[k].branchWasTaken)

\* C15: for N in {128, 1024, 4096} and any sequence of (address, outcome)
\* pairs, a second, independently constructed LocalBranchPredictor fed the
\* same sequence returns the same prediction at every step and is in the
\* same state after every step, whatever the memory it was constructed over
\* held.
C15_LocalDeterminism ==
    bp.kind = "local" =>
        \A m \in Indeterminate :
            /\ bp = SecondLocal(bp.numEntries, m, trace, Len(trace))
            /\ Len(trace) > 0 =>
                  LastEntry.predicted =
                      LocalGetPrediction(
                          SecondLocal(bp.numEntries, m, trace, Len(trace) - 1),
                          LastEntry.branchPC)

\* a sequence over both addresses that drew both predictions
C15_Witness ==
    /\ bp.kind = "local"
    /\ \E i, j \in 1 .. Len(trace) :
          /\ trace[i].predicted /\ ~trace[j].predicted
          /\ trace[i].branchPC # trace[j].branchPC

\* 0x1000, 0x2000 and 0x1AE3, 0x2AE3: two pairs of addresses with the same
\* low 12 bits
AliasAddresses == {4096, 8192, 6883, 10979}

\* C16: in any reachable gshare state, two distinct addresses a1 and a2 with
\* ((a1 & (N-1)) XOR GHR) = ((a2 & (N-1)) XOR GHR) get the same prediction,
\* and train(a1, o) and train(a2, o) lead to the same state.
C16_GshareAliasing ==
    bp.kind = "gshare" =>
        \A a1, a2 \in AliasAddresses :
            (a1 # a2 /\ BitXor(a1 % bp.numEntries, bp.GHR)
                          = BitXor(a2 % bp.numEntries, bp.GHR)) =>
                /\ GetPrediction(bp, a1) = GetPrediction(bp, a2)
                /\ \A o \in BOOLEAN : Train(bp, a1, o) = Train(bp, a2, o)

\* a gshare predictor of 4096 entries with a history, in which train on the
\* colliding addresses 0x1AE3 and 0x2AE3 changes the counter they share
C16_Witness ==
    /\ bp.kind = "gshare"
    /\ bp.numEntries = 4096
    /\ bp.GHR # 0
    /\ BitXor(6883 % 4096, bp.GHR) = BitXor(10979 % 4096, bp.GHR)
    /\ Train(bp, 6883, FALSE).PHT # bp.PHT
    /\ Train(bp, 10979, FALSE) = Train(bp, 6883, FALSE)

\* l2 differs from l at most in the counter and the history entry of a
LocalFrame(l, l2, a) ==
    LET b   == a % 128
        idx == l.LHR[b]
    IN  l2 = [l EXCEPT !.PHT[idx] = l2.PHT[idx], !.LHR[b] = l2.LHR[b]]

\* g2 differs from g at most in the counter of a and the GHR
GshareFrame(g, g2, a) ==
    LET idx == BitXor(a % g.numEntries, g.GHR)
    IN  g2 = [g EXCEPT !.PHT[idx] = g2.PHT[idx], !.GHR = g2.GHR]

\* the selector table of t2 differs from that of t at most at a & (N-1)
SelectorFrame(t, t2, a) ==
    LET s == a % t.numEntries
    IN  t2.PHT = [t.PHT EXCEPT ![s] = t2.PHT[s]]

C17_Step ==
    BranchDone =>
        CASE bp.kind = "local"      -> LocalFrame(bp, bp', DonePC)
          [] bp.kind = "gshare"     -> GshareFrame(bp, bp', DonePC)
          [] bp.kind = "tournament" ->
                /\ SelectorFrame(bp, bp', DonePC)
                /\ LocalFrame(bp.lbranch, bp'.lbranch, DonePC)
                /\ GshareFrame(bp.gbranch, bp'.gbranch, DonePC)
          [] OTHER                  -> TRUE

\* C17: the local predictor's train(a, o) changes at most the counter
\* PHT[LHR[a & 127]] and the history entry LHR[a & 127]; the gshare
\* predictor's train(a, o) changes at most the counter
\* PHT[(a & (N-1)) XOR GHR] and the GHR; the tournament predictor's
\* train(a, o) changes at most the counter at a & (N-1) of its selector
\* table (and its sub-predictors as their own train does).
C17_TrainFrame == [][C17_Step]_vars

\* a train of the tournament predictor with a global history that has
\* moved the selector counter of its branch
C17_Witness ==
    /\ bp.kind = "tournament"
    /\ call.op = "train"
    /\ Len(trace) > 0
    /\ bp.PHT[LastEntry.branchPC % bp.numEntries] # LastEntry.selector
    /\ bp.gbranch.GHR # 0

\* k such that N = 2^k
RECURSIVE Log2(_)
Log2(n) == IF n <= 1 THEN 0 ELSE 1 + Log2(n \div 2)

RECURSIVE Pow2(_)
Pow2(i) == IF i = 0 THEN 1 ELSE 2 * Pow2(i - 1)

\* the outcomes of the trains on addresses of bucket b, oldest first
BucketOutcomes(b) ==
    LET InBucket(e) == e.branchPC % 128 = b
    IN  SelectSeq(trace, InBucket)

\* the number whose bit i, for i in from .. k-1, is the outcome of the
\* (i+1)-th most recent of outs, and 0 where there is none
RECURSIVE ShiftRegister(_, _, _)
ShiftRegister(outs, from, k) ==
    IF from >= k \/ from >= Len(outs)
    THEN 0
    ELSE OutcomeBit(outs[Len(outs) - from].branchWasTaken) * Pow2(from)
            + ShiftRegister(outs, from + 1, k)

\* C18: in every reachable state of a local predictor of size N = 2^k, for
\* every bucket b in [0,128), LHR[b] is the k-bit number whose bit i is the
\* outcome of the (i+1)-th most recent train on an address with a & 127 = b
\* (0 where there was none); trains on other buckets do not affect LHR[b].
C18_ShiftRegister ==
    bp.kind = "local" =>
        \A b \in 0 .. 127 :
            bp.LHR[b] = ShiftRegister(BucketOutcomes(b), 0, Log2(bp.numEntries))

\* bucket 0 has seen more trains than the register has bits, the oldest of
\* them taken, and another bucket has been trained as well
C18_Witness ==
    /\ bp.kind = "local"
    /\ Len(BucketOutcomes(0)) > Log2(bp.numEntries)
    /\ BucketOutcomes(0)[1].branchWasTaken
    /\ Len(BucketOutcomes(99)) > 0
    /\ bp.LHR[99] # 0

C19_Step ==
    (BranchDone /\ bp.kind = "tournament") =>
        LET used == trace'[Len(trace')].used
        IN  /\ used # 2
            /\ used = 0 <=> SelectorAt(bp, DonePC) >= 2
            /\ used = 1 <=> SelectorAt(bp, DonePC) < 2

\* C19: when every train(a, o) on the tournament predictor comes right
\* after getPrediction(a), the field used is, at entry to train, 0 exactly
\* when the selector counter at a & (N-1) is >= 2 and 1 exactly when it is
\* < 2, and never 2.
C19_RecordedChoice == [][C19_Step]_vars

\* a train entered with used = 1 for a branch whose selector counter had
\* come down to 0
C19_Witness ==
    /\ bp.kind = "tournament"
    /\ Len(trace) > 0
    /\ LastEntry.used = 1
    /\ LastEntry.selector = 0

C20_Step ==
    (BranchDone /\ bp.kind = "tournament" /\ Agreed) =>
        /\ SelectorAt(bp', DonePC) >= 2 <=> SelectorAt(bp, DonePC) >= 2
        /\ GsharePrediction(bp.gbranch, DonePC) # DoneTaken =>
              SelectorAt(bp', DonePC) = SelectorAt(bp, DonePC)

\* C20: for a branch processed as getPrediction(a) then train(a, o) on
\* which the local and gshare predictions agree, the selector counter at
\* a & (N-1) is >= 2 after train exactly when it was before; when both
\* mispredict its value is unchanged.
C20_AgreementKeepsChoice == [][C20_Step]_vars

\* both sub-predictors predicted the outcome while local was selected, and
\* the selector went 1 -> 0
C20_Witness ==
    /\ bp.kind = "tournament"
    /\ Len(trace) > 0
    /\ LastEntry.gresult = LastEntry.lresult
    /\ LastEntry.gresult = LastEntry.branchWasTaken
    /\ LastEntry.selector = 1
    /\ SelectorAt(bp, LastEntry.branchPC) = 0

====
